---- MODULE Spec2Model ----
(***************************************************************************)
(* noisebench: the noise expression tree (src/src/lua.rs), the script      *)
(* runtime host that builds it, and the generation pipeline of             *)
(* src/src/main.rs (generate_noise / update_noise_outputs).                *)
(*                                                                         *)
(* Numbers: f32/f64 values are modelled as exact rationals <<n, d>> with   *)
(* d > 0 in lowest terms, plus the IEEE specials NaN, +Inf, -Inf.    *)
(* Rounding is not modelled.                                               *)
(***************************************************************************)
EXTENDS Integers, Sequences, FiniteSets, TLC

(* ----------------------------- bounds --------------------------------- *)
\* side length of the sampled grid (the program uses 32, main.rs:874)
Diameter == 2
\* tasks started in one run of the model
MaxTasks == 2
\* events the senders may leave in the event buffers at once
MaxEvents == 2
\* scripts run one after another on one worker thread in LuaSpec
MaxRuns == 3
\* octaves of the Octaves nodes evaluated in EvalSpec
MaxOctaves == 3
\* userdata cells of the runtime in OpSpec (NoiseCtors and the tree handles)
MaxHandles == 4

\* the element of a one-element set: The({F(x) : x \in {e}}) computes e
\* once and then F of its value
The(S) == CHOOSE x \in S : TRUE

(* --------------------------- rationals -------------------------------- *)
RECURSIVE Gcd(_, _)
Gcd(a, b) == IF b = 0 THEN a ELSE The({Gcd(p[1], p[2]) : p \in {<<b, a % b>>}})

AbsInt(a) == IF a < 0 THEN -a ELSE a

Rat(n, d) ==
    The({<<(IF p[2] < 0 THEN -p[1] ELSE p[1]) \div g, AbsInt(p[2]) \div g>>
         : p \in {<<n, d>>}, g \in {Gcd(AbsInt(n), AbsInt(d))}})

Int2F(n) == <<n, 1>>
Zero == Int2F(0)
One == Int2F(1)

\* the IEEE specials, as "fractions" of denominator 0
NaN == <<0, 0>>
PInf == <<1, 0>>
NInf == <<-1, 0>>

IsSpecial(v) == v[2] = 0
Sign(v) == IF v[1] > 0 THEN 1 ELSE IF v[1] < 0 THEN -1 ELSE 0
InfOf(s) == IF s > 0 THEN PInf ELSE IF s < 0 THEN NInf ELSE NaN

FNeg(a) == <<-a[1], a[2]>>

FAdd(x, y) ==
    The({IF a = NaN \/ b = NaN THEN NaN
         ELSE IF IsSpecial(a) THEN (IF IsSpecial(b) /\ b # a THEN NaN ELSE a)
         ELSE IF IsSpecial(b) THEN b
         ELSE Rat(a[1] * b[2] + b[1] * a[2], a[2] * b[2])
         : a \in {x}, b \in {y}})

FSub(a, b) == FAdd(a, FNeg(b))

FMul(x, y) ==
    The({IF a = NaN \/ b = NaN THEN NaN
         ELSE IF IsSpecial(a) \/ IsSpecial(b) THEN InfOf(Sign(a) * Sign(b))
         ELSE Rat(a[1] * b[1], a[2] * b[2])
         : a \in {x}, b \in {y}})

\* IEEE division: x/0 is an infinity of x's sign, 0/0 and Inf/Inf are NaN
\* (the sign of a zero is not modelled: zero divisors count as +0)
FDiv(x, y) ==
    The({IF a = NaN \/ b = NaN THEN NaN
         ELSE IF IsSpecial(a) THEN (IF IsSpecial(b) THEN NaN
                                    ELSE InfOf(Sign(a) * (IF Sign(b) < 0 THEN -1 ELSE 1)))
         ELSE IF IsSpecial(b) THEN Zero
         ELSE IF b[1] = 0 THEN InfOf(Sign(a))
         ELSE Rat(a[1] * b[2], a[2] * b[1])
         : a \in {x}, b \in {y}})

FLess(a, b) ==
    IF a = NaN \/ b = NaN THEN FALSE
    ELSE IF a = b THEN FALSE
    ELSE IF a = NInf \/ b = PInf THEN TRUE
    ELSE IF a = PInf \/ b = NInf THEN FALSE
    ELSE a[1] * b[2] < b[1] * a[2]

\* f32::min / f32::max: a NaN operand is ignored
FMin(a, b) == IF a = NaN THEN b ELSE IF b = NaN THEN a
              ELSE IF FLess(b, a) THEN b ELSE a
FMax(a, b) == IF a = NaN THEN b ELSE IF b = NaN THEN a
              ELSE IF FLess(a, b) THEN b ELSE a

\* floor division of integers (d > 0)
FloorDiv(n, d) == IF n >= 0 THEN n \div d ELSE -((-n + d - 1) \div d)

FFloor(a) == IF IsSpecial(a) THEN a ELSE Int2F(FloorDiv(a[1], a[2]))
FCeil(a) == IF IsSpecial(a) THEN a ELSE Int2F(-FloorDiv(-a[1], a[2]))
FAbs(a) == IF a = NaN THEN NaN ELSE IF IsSpecial(a) THEN PInf
           ELSE <<AbsInt(a[1]), a[2]>>

\* truncation toward zero
FTrunc(a) == IF Sign(a) < 0 THEN FCeil(a) ELSE FFloor(a)

\* the % of f32: remainder of the truncated division, sign of the dividend
FRem(a, b) ==
    IF a = NaN \/ b = NaN \/ IsSpecial(a) THEN NaN
    ELSE IF IsSpecial(b) THEN a
    ELSE IF b[1] = 0 THEN NaN
    ELSE FSub(a, FMul(b, FTrunc(FDiv(a, b))))

\* f32::rem_euclid: r = self % rhs; if r < 0.0 { r + rhs.abs() } else { r }
FRemEuclid(a, b) ==
    LET r == FRem(a, b)
    IN  IF FLess(r, Zero) THEN FAdd(r, FAbs(b)) ELSE r

RECURSIVE IntPow(_, _)
IntPow(a, k) ==
    IF k = 0 THEN One ELSE The({FMul(a, r) : r \in {IntPow(a, k - 1)}})

\* powf for the exponents the model can compute exactly: integers; a
\* fractional exponent of a negative base is NaN, as in IEEE powf; other
\* fractional exponents are outside the model's trees
FPow(a, b) ==
    IF IsSpecial(b) \/ IsSpecial(a) THEN
        (IF b = Zero THEN One ELSE NaN)
    ELSE IF b[2] = 1 THEN
        (IF b[1] >= 0 THEN IntPow(a, b[1]) ELSE FDiv(One, IntPow(a, -b[1])))
    ELSE IF a = One THEN One
    ELSE NaN

\* f32::copysign(self, sign): magnitude of self, sign of sign (a NaN stays NaN)
FCopysign(a, s) ==
    IF a = NaN THEN NaN
    ELSE IF Sign(s) < 0 THEN FNeg(FAbs(a)) ELSE FAbs(a)

\* f32::clamp(min, max): if self < min { min } else if self > max { max }
FClamp(a, lo, hi) ==
    IF FLess(a, lo) THEN lo ELSE IF FLess(hi, a) THEN hi ELSE a

(* ----------------------- coordinates (DVec2) -------------------------- *)
dvec2(x, y) == <<x, y>>
VAdd(p, q) == <<FAdd(p[1], q[1]), FAdd(p[2], q[2])>>
VMul(p, q) == <<FMul(p[1], q[1]), FMul(p[2], q[2])>>
VScale(p, f) == <<FMul(p[1], f), FMul(p[2], f)>>

(* --------------------------- enum Noise ------------------------------- *)
\* the constructors of enum Noise; a tree is a record with field tag
Const(v) == [tag |-> "Const", v |-> v]
Func(f) == [tag |-> "Func", f |-> f]
Simplex(seed) == [tag |-> "Simplex", seed |-> seed]
SimplexFast(seed) == [tag |-> "SimplexFast", seed |-> seed]
Octaves(func, octaves, ampScale, freqScale) ==
    [tag |-> "Octaves", func |-> func, octaves |-> octaves,
     ampScale |-> ampScale, freqScale |-> freqScale]
Bin(tag, l, r) == [tag |-> tag, l |-> l, r |-> r]
Un(tag, arg) == [tag |-> tag, arg |-> arg]
Clamp(func, min, max) == [tag |-> "Clamp", func |-> func, min |-> min, max |-> max]
CoordTranslate(func, translation) ==
    [tag |-> "CoordTranslate", func |-> func, vec |-> translation]
CoordScale(func, scale) == [tag |-> "CoordScale", func |-> func, vec |-> scale]

BinTags == {"Add", "Sub", "Mul", "Div", "Pow", "Rem", "RemEuclid", "SignedPow",
            "Min", "Max"}
UnTags == {"Floor", "Ceil", "Abs", "ToUnsignedUnit", "ToSignedUnit"}

\* the closures a Func leaf may hold (impl NoiseFunc for Fn(DVec2) -> f32)
NoiseFuncEval(f, pos) ==
    CASE f = "x" -> pos[1]
      [] f = "y" -> pos[2]
      [] OTHER -> FAdd(pos[1], FMul(Int2F(2), pos[2]))

\* opensimplex2::smooth::noise2 and opensimplex2::fast::noise2 are external:
\* deterministic stand-ins, keyed by seed and coordinate, with values in [-1, 1]
CoordKey(pos) == 3 * pos[1][1] + 5 * pos[2][1] + pos[1][2] + 2 * pos[2][2]
noise2_smooth(seed, pos) == Rat(((seed + CoordKey(pos)) % 5) - 2, 2)
noise2_fast(seed, pos) == Rat(((2 * seed + CoordKey(pos)) % 3) - 1, 1)

BinOp(tag, l, r) ==
    CASE tag = "Add" -> FAdd(l, r)
      [] tag = "Sub" -> FSub(l, r)
      [] tag = "Mul" -> FMul(l, r)
      [] tag = "Div" -> FDiv(l, r)
      [] tag = "Pow" -> FPow(l, r)
      [] tag = "Rem" -> FRem(l, r)
      [] tag = "RemEuclid" -> FRemEuclid(l, r)
      [] tag = "Min" -> FMin(l, r)
      [] tag = "Max" -> FMax(l, r)
      [] tag = "SignedPow" -> FCopysign(FPow(l, r), l)

UnOp(tag, v) ==
    CASE tag = "Floor" -> FFloor(v)
      [] tag = "Ceil" -> FCeil(v)
      [] tag = "Abs" -> FAbs(v)
      [] tag = "ToUnsignedUnit" -> FDiv(FAdd(v, One), Int2F(2))
      [] tag = "ToSignedUnit" -> FSub(FMul(v, Int2F(2)), One)

\* Noise::eval
RECURSIVE eval(_, _)
RECURSIVE OctavesLoop(_, _, _, _, _, _)
eval(t, pos) ==
    CASE t.tag = "Const" -> t.v
      [] t.tag = "Func" -> NoiseFuncEval(t.f, pos)
      [] t.tag = "Simplex" -> noise2_smooth(t.seed, pos)
      [] t.tag = "SimplexFast" -> noise2_fast(t.seed, pos)
      [] t.tag = "Octaves" -> OctavesLoop(t, pos, t.octaves, Zero, One, One)
      [] t.tag \in BinTags ->
            The({BinOp(t.tag, l, r) : l \in {eval(t.l, pos)}, r \in {eval(t.r, pos)}})
      [] t.tag \in UnTags -> The({UnOp(t.tag, v) : v \in {eval(t.arg, pos)}})
      [] t.tag = "Clamp" -> The({FClamp(v, t.min, t.max) : v \in {eval(t.func, pos)}})
      [] t.tag = "CoordTranslate" ->
            The({eval(t.func, q) : q \in {VAdd(pos, t.vec)}})
      [] t.tag = "CoordScale" -> The({eval(t.func, q) : q \in {VMul(pos, t.vec)}})

\* an Octaves loop that never scales the amplitude
OctavesLoopFlat(t, pos, left, res, amp, freq) ==
    IF left = 0 THEN res
    ELSE The({OctavesLoop(t, pos, left - 1, n[1], amp, n[2])
              : n \in {<<FAdd(res, FMul(amp, eval(t.func, VScale(pos, freq)))),
                         FMul(freq, t.freqScale)>>}})

\* the loop of the Octaves arm: left iterations to run, with res, amp, freq
OctavesLoop(t, pos, left, res, amp, freq) ==
    IF left = 0 THEN res
    ELSE The({OctavesLoop(t, pos, left - 1, n[1], n[2], n[3])
              : n \in {<<FAdd(res, FMul(amp, eval(t.func, VScale(pos, freq)))),
                         FMul(amp, t.ampScale), FMul(freq, t.freqScale)>>}})

\* impl Clone for Noise: each variant rebuilt from its fields
RECURSIVE clone(_)
\* a Clone whose Octaves arm exchanges the two scales
cloneSwapScales(t) ==
    IF t.tag = "Octaves"
    THEN Octaves(clone(t.func), t.octaves, t.freqScale, t.ampScale)
    ELSE t

clone(t) ==
    CASE t.tag = "Const" -> Const(t.v)
      [] t.tag = "Func" -> Func(t.f)
      [] t.tag = "Simplex" -> Simplex(t.seed)
      [] t.tag = "SimplexFast" -> SimplexFast(t.seed)
      [] t.tag = "Octaves" ->
            [tag |-> "Octaves", func |-> clone(t.func), octaves |-> t.octaves,
             freqScale |-> t.freqScale, ampScale |-> t.ampScale]
      [] t.tag \in BinTags -> Bin(t.tag, clone(t.l), clone(t.r))
      [] t.tag \in UnTags -> Un(t.tag, clone(t.arg))
      [] t.tag = "Clamp" -> Clamp(clone(t.func), t.min, t.max)
      [] t.tag = "CoordTranslate" -> CoordTranslate(clone(t.func), t.vec)
      [] t.tag = "CoordScale" -> CoordScale(clone(t.func), t.vec)

(* -------------------------- NoiseOutput ------------------------------- *)
\* NoiseOutput::new: samples = vec![0.0; diameter.pow(2)], indexed from 0
NoiseOutput_new(diameter) ==
    [diameter |-> diameter, samples |-> [i \in 0 .. diameter * diameter - 1 |-> Zero]]

\* row slices that all begin at the start of the buffer
rowsOverlapping(img) ==
    [y \in 0 .. img.diameter - 1 |-> [k \in 0 .. img.diameter - 1 |-> k]]

\* NoiseOutput::rows: chunks_exact_mut(diameter).enumerate(): row y is the
\* slice of the indices y*diameter .. y*diameter + diameter - 1
rows(img) ==
    [y \in 0 .. (Cardinality(DOMAIN img.samples) \div img.diameter) - 1 |->
        [k \in 0 .. img.diameter - 1 |-> y * img.diameter + k]]

\* a sample position with the axes exchanged
CellPosSwapped(x, y, diameter) ==
    dvec2(FDiv(Int2F(y), Int2F(diameter - 1)), FDiv(Int2F(x), Int2F(diameter - 1)))

\* the coordinate a row unit computes for the cell x of its row y
CellPos(x, y, diameter) ==
    dvec2(FDiv(Int2F(x), Int2F(diameter - 1)), FDiv(Int2F(y), Int2F(diameter - 1)))

\* one iteration of the unit's loop: *height = ast.eval(pos)
WriteCell(img, slice, x, y, ast) ==
    The({[img EXCEPT !.samples[slice[x]] = eval(ast, pos)]
         : pos \in {CellPos(x, y, img.diameter)}})

\* the whole loop of one row unit
RECURSIVE WriteRowFrom(_, _, _, _, _)
WriteRowFrom(img, slice, x, y, ast) ==
    IF x \notin DOMAIN slice THEN img
    ELSE The({WriteRowFrom(next, slice, x + 1, y, ast)
              : next \in {WriteCell(img, slice, x, y, ast)}})

(* ------------------- the Lua runtime (thread_local luaInst) ----------- *)
\* Lua values
NilV == [t |-> "nil"]
NumV(r) == [t |-> "number", n |-> r]
UdV(h) == [t |-> "userdata", h |-> h]

\* userdata cells of a runtime: the NoiseCtors table object, a Noise, or a
\* userdata whose value was taken out (AnyUserData::take destructs it)
CtorsCell == [kind |-> "NoiseCtors"]
NoiseCell(tree) == [kind |-> "Noise", tree |-> tree]
DestructedCell == [kind |-> "destructed"]

\* the names of globals the model's scripts read and write
GlobalNames == {"Noise", "g"}

\* luaInst: Lua::new(), then globals().set("Noise", NoiseCtors)
luaInst ==
    [globals |-> [name \in GlobalNames |-> IF name = "Noise" THEN UdV(1) ELSE NilV],
     ud |-> <<CtorsCell>>]


\* the result of evaluating an expression: a value, or a raised error
Ok(val, st) == [ok |-> TRUE, val |-> val, st |-> st]
Raise(st) == [ok |-> FALSE, val |-> NilV, st |-> st]

\* a result stored into the newest userdata instead of a new one
AllocReuse(st, tree) ==
    Ok(UdV(Len(st.ud)), [st EXCEPT !.ud[Len(st.ud)] = NoiseCell(tree)])

\* a Rust Noise returned by a callback becomes a new userdata of the runtime
Alloc(st, tree) ==
    Ok(UdV(Len(st.ud) + 1), [st EXCEPT !.ud = Append(@, NoiseCell(tree))])

IsNoise(st, val) == val.t = "userdata" /\ st.ud[val.h].kind = "Noise"

\* rhs_to_noise: a number becomes a Const, a Noise userdata is borrowed and
\* cloned, anything else is an error
rhs_is_ok(st, rhs) == rhs.t = "number" \/ IsNoise(st, rhs)
rhs_to_noise(st, rhs) ==
    IF rhs.t = "number" THEN Const(rhs.n) ELSE clone(st.ud[rhs.h].tree)

IsNum(args, i) == i <= Len(args) /\ args[i].t = "number"
\* Option<f32> / Option<f64>: a missing or nil argument is None
IsOptNum(args, i) == i > Len(args) \/ args[i].t \in {"nil", "number"}
OptNum(args, i, default) ==
    IF i <= Len(args) /\ args[i].t = "number" THEN args[i].n ELSE default
IsUsize(args, i) ==
    IsNum(args, i) /\ args[i].n[2] = 1 /\ args[i].n[1] >= 0

MethodBinTag ==
    [remEuclid |-> "RemEuclid", min |-> "Min", max |-> "Max", signedPow |-> "SignedPow"]
MethodUnTag ==
    [floor |-> "Floor", ceil |-> "Ceil", abs |-> "Abs",
     toSignedUnit |-> "ToSignedUnit", toUnsignedUnit |-> "ToUnsignedUnit"]
MetaTag ==
    [Add |-> "Add", Sub |-> "Sub", Mul |-> "Mul", Div |-> "Div", Pow |-> "Pow",
     Mod |-> "Rem"]

\* impl UserData for NoiseCtors: Noise.const, Noise.simplex, Noise.simplexFast
CtorCall(st, fn, args) ==
    IF fn = "const" /\ IsNum(args, 1) THEN Alloc(st, Const(args[1].n))
    ELSE IF fn = "simplex" /\ IsNum(args, 1) /\ args[1].n[2] = 1
        THEN Alloc(st, Simplex(args[1].n[1]))
    ELSE IF fn = "simplexFast" /\ IsNum(args, 1) /\ args[1].n[2] = 1
        THEN Alloc(st, SimplexFast(args[1].n[1]))
    ELSE Raise(st)

\* impl UserData for Noise, the named methods: this is borrowed, never written
MethodCall(st, this, fn, args) ==
    IF fn = "octaves" THEN
        IF IsUsize(args, 1) /\ IsOptNum(args, 2) /\ IsOptNum(args, 3)
        THEN Alloc(st, Octaves(clone(this), args[1].n[1],
                               OptNum(args, 2, Rat(1, 2)), OptNum(args, 3, Int2F(2))))
        ELSE Raise(st)
    ELSE IF fn \in DOMAIN MethodBinTag THEN
        IF Len(args) >= 1 /\ rhs_is_ok(st, args[1])
        THEN Alloc(st, Bin(MethodBinTag[fn], clone(this), rhs_to_noise(st, args[1])))
        ELSE Raise(st)
    ELSE IF fn \in DOMAIN MethodUnTag THEN
        Alloc(st, Un(MethodUnTag[fn], clone(this)))
    ELSE IF fn = "clamp" THEN
        IF IsNum(args, 1) /\ IsNum(args, 2)
        THEN Alloc(st, Clamp(clone(this), args[1].n, args[2].n))
        ELSE Raise(st)
    ELSE IF fn = "translate" THEN
        IF IsNum(args, 1) /\ IsOptNum(args, 2)
        THEN Alloc(st, CoordTranslate(clone(this),
                                      dvec2(args[1].n, OptNum(args, 2, args[1].n))))
        ELSE Raise(st)
    ELSE IF fn = "scale" THEN
        IF IsNum(args, 1) /\ IsOptNum(args, 2)
        THEN Alloc(st, CoordScale(clone(this),
                                  dvec2(args[1].n, OptNum(args, 2, args[1].n))))
        ELSE Raise(st)
    ELSE Raise(st)

\* the six operator metamethods (__add, __sub, __mul, __div, __pow, __mod)
MetaCall(st, op, l, r) ==
    IF IsNoise(st, l) /\ rhs_is_ok(st, r)
    THEN Alloc(st, Bin(MetaTag[op], clone(st.ud[l.h].tree), rhs_to_noise(st, r)))
    ELSE Raise(st)

\* plain Lua arithmetic on two numbers (a % b is a - floor(a/b)*b in Lua)
NumArith(op, a, b) ==
    IF op = "Mod"
    THEN (IF IsSpecial(a) \/ IsSpecial(b) \/ b = Zero THEN NaN
          ELSE FSub(a, FMul(b, FFloor(FDiv(a, b)))))
    ELSE BinOp(MetaTag[op], a, b)

\* expressions of a script:
\*   [e |-> "num", n |-> r]   [e |-> "nil"]   [e |-> "global", name |-> s]
\*   [e |-> "call", obj |-> e1, fn |-> s, args |-> <<e2, ...>>]   obj.fn(..) / obj:fn(..)
\*   [e |-> "binop", op |-> s, l |-> e1, r |-> e2]
RECURSIVE EvalExpr(_, _)
RECURSIVE EvalArgs(_, _, _)
CallOn(e, o, a) ==
    IF ~a.ok THEN Raise(a.st)
    ELSE IF o.val.t # "userdata" THEN Raise(a.st)
    ELSE IF a.st.ud[o.val.h].kind = "NoiseCtors" THEN CtorCall(a.st, e.fn, a.val)
    ELSE IF a.st.ud[o.val.h].kind = "Noise"
        THEN MethodCall(a.st, a.st.ud[o.val.h].tree, e.fn, a.val)
    ELSE Raise(a.st)

BinOpOn(e, l, r) ==
    IF ~r.ok THEN r
    ELSE IF l.val.t = "number" /\ r.val.t = "number"
        THEN Ok(NumV(NumArith(e.op, l.val.n, r.val.n)), r.st)
    ELSE MetaCall(r.st, e.op, l.val, r.val)

EvalExpr(e, st) ==
    CASE e.e = "num" -> Ok(NumV(e.n), st)
      [] e.e = "nil" -> Ok(NilV, st)
      [] e.e = "global" -> Ok(st.globals[e.name], st)
      [] e.e = "call" ->
            The({IF ~o.ok THEN o
                 ELSE The({CallOn(e, o, a) : a \in {EvalArgs(e.args, <<>>, o.st)}})
                 : o \in {EvalExpr(e.obj, st)}})
      [] e.e = "binop" ->
            The({IF ~l.ok THEN l
                 ELSE The({BinOpOn(e, l, r) : r \in {EvalExpr(e.r, l.st)}})
                 : l \in {EvalExpr(e.l, st)}})

\* the arguments of a call, left to right; val is the sequence of their values
EvalArgs(es, done, st) ==
    IF es = <<>> THEN [ok |-> TRUE, val |-> done, st |-> st]
    ELSE The({IF ~r.ok THEN [ok |-> FALSE, val |-> done, st |-> r.st]
              ELSE EvalArgs(Tail(es), Append(done, r.val), r.st)
              : r \in {EvalExpr(Head(es), st)}})

\* statements of a script: [s |-> "set", name |-> g, e |-> expr] assigns a
\* global, [s |-> "error"] raises
RECURSIVE ExecBody(_, _)
ExecBody(body, st) ==
    IF body = <<>> THEN [ok |-> TRUE, st |-> st]
    ELSE IF Head(body).s = "error" THEN [ok |-> FALSE, st |-> st]
    ELSE The({IF ~r.ok THEN [ok |-> FALSE, st |-> r.st]
              ELSE ExecBody(Tail(body),
                            [r.st EXCEPT !.globals[Head(body).name] = r.val])
              : r \in {EvalExpr(Head(body).e, st)}})

\* garbage collection: the userdata no global refers to are freed and the
\* rest renumbered in order (a Noise userdata owns its tree: cells hold no
\* reference to other cells)
Live(st) == {st.globals[name].h : name \in {m \in GlobalNames : st.globals[m].t = "userdata"}}
NewIndex(st, h) == Cardinality({k \in Live(st) : k <= h})
RECURSIVE KeepLive(_, _)
KeepLive(st, h) ==
    IF h > Len(st.ud) THEN <<>>
    ELSE (IF h \in Live(st) THEN <<st.ud[h]>> ELSE <<>>) \o KeepLive(st, h + 1)
Collect(st) ==
    [globals |-> [name \in GlobalNames |->
                    IF st.globals[name].t = "userdata"
                    THEN UdV(NewIndex(st, st.globals[name].h))
                    ELSE st.globals[name]],
     ud |-> KeepLive(st, 1)]

\* the outcome of construct_noisegen: Ok(tree) or Err(kind), and the runtime
\* as the call leaves it
BuildOk(tree, st) ==
    The({[ok |-> TRUE, noise |-> tree, err |-> "", lua |-> Collect(s)] : s \in {st}})
BuildErr(kind, st) ==
    The({[ok |-> FALSE, noise |-> Const(Zero), err |-> kind, lua |-> Collect(s)] : s \in {st}})

\* a conversion of the result that reports every unusable value as a failed run
TakeResultUntyped(r) ==
    IF ~r.ok \/ r.val.t # "userdata" THEN BuildErr("RuntimeError", r.st)
    ELSE IF r.st.ud[r.val.h].kind # "Noise" THEN BuildErr("RuntimeError", r.st)
    ELSE BuildOk(r.st.ud[r.val.h].tree, [r.st EXCEPT !.ud[r.val.h] = DestructedCell])

\* chunk.call::<_, LuaAnyUserData>(()) then noise.take(), given the result r
\* of the chunk's return expression
TakeResult(r) ==
    IF ~r.ok THEN BuildErr("RuntimeError", r.st)
    ELSE IF r.val.t # "userdata" THEN BuildErr("FromLuaConversionError", r.st)
    ELSE IF r.st.ud[r.val.h].kind = "NoiseCtors"
        THEN BuildErr("UserDataTypeMismatch", r.st)
    ELSE IF r.st.ud[r.val.h].kind = "destructed"
        THEN BuildErr("UserDataDestructed", r.st)
    ELSE BuildOk(r.st.ud[r.val.h].tree, [r.st EXCEPT !.ud[r.val.h] = DestructedCell])

\* construct_noisegen on the calling thread's runtime st. A script is
\* [syntax |-> BOOLEAN, body |-> <<stmt, ...>>, ret |-> expr]
construct_noisegen(code, st) ==
    IF ~code.syntax THEN BuildErr("SyntaxError", st)
    ELSE The({IF ~b.ok THEN BuildErr("RuntimeError", b.st)
              ELSE The({TakeResult(r) : r \in {EvalExpr(code.ret, b.st)}})
              : b \in {ExecBody(code.body, st)}})

(* ------------------------- the script files --------------------------- *)
Num(n) == [e |-> "num", n |-> Int2F(n)]
Global(name) == [e |-> "global", name |-> name]
Call(obj, fn, args) == [e |-> "call", obj |-> obj, fn |-> fn, args |-> args]
BinE(op, l, r) == [e |-> "binop", op |-> op, l |-> l, r |-> r]
Set(name, e) == [s |-> "set", name |-> name, e |-> e]
Script(body, ret) == [syntax |-> TRUE, body |-> body, ret |-> ret]

\* the files of assets/scripts (UiState.scripts), by name
Files == {"simplex.lua", "syntax.lua", "clobber.lua"}
\* further sources handed to construct_noisegen in LuaSpec
MoreSources == {"error.lua", "number.lua", "ctors.lua", "setg.lua", "useg.lua"}

ScriptOf(file) ==
    CASE file = "simplex.lua" ->
            \* return Noise.simplex(1):scale(3) + 1
            Script(<<>>, BinE("Add", Call(Call(Global("Noise"), "simplex", <<Num(1)>>),
                                          "scale", <<Num(3)>>), Num(1)))
      [] file = "syntax.lua" -> [syntax |-> FALSE, body |-> <<>>, ret |-> [e |-> "nil"]]
      [] file = "error.lua" ->
            \* error("boom")
            Script(<<[s |-> "error"]>>, [e |-> "nil"])
      [] file = "number.lua" ->
            \* return 1
            Script(<<>>, Num(1))
      [] file = "ctors.lua" ->
            \* return Noise
            Script(<<>>, Global("Noise"))
      [] file = "setg.lua" ->
            \* g = Noise.const(2); return g
            Script(<<Set("g", Call(Global("Noise"), "const", <<Num(2)>>))>>, Global("g"))
      [] file = "useg.lua" ->
            \* return g
            Script(<<>>, Global("g"))
      [] file = "clobber.lua" ->
            \* Noise = nil; return Noise
            Script(<<Set("Noise", [e |-> "nil"])>>, Global("Noise"))

\* the threads of the AsyncComputeTaskPool, each with its own luaInst
Threads == {"w1", "w2"}

(* ------------------------------ state --------------------------------- *)
VARIABLES
    events,          \* Events<NoiseGenRequest>: the two buffers, oldest first
    ran,             \* the systems of Update that ran in the current tick
    selected,        \* UiState.selected ("None" or a file)
    height,          \* UiState.height
    pool,            \* the spawned tasks that still have a handle, by id
    tracked,         \* the entities holding a NoiseGenTask
    cmds,            \* the Commands queued in this tick
    image,           \* the image asset Heightmaps.image
    mesh,            \* the mesh asset Heightmaps.mesh
    lastNoiseOutput, \* the NoiseOutput resource, if inserted
    fatal,           \* a system panicked
    lua,             \* luaInst of every worker thread
    nextId,          \* the id of the next task
    superseded,      \* history: tasks in flight when a rebuild was honored
    applyCount,      \* history: how often each task's buffer was applied
    genRead,         \* history: what generate_noise read in this tick
    genStarted,      \* history: tasks generate_noise started in this tick
    outLog,          \* history: what update_noise_outputs did in this tick
    sampler,         \* SamplerSpec: one task's sampling, cell by cell
    lastBuild        \* LuaSpec: the last call of construct_noisegen

pvars == <<events, ran, selected, height, pool, tracked, cmds, image, mesh,
           lastNoiseOutput, fatal, nextId, superseded, applyCount,
           genRead, genStarted, outLog>>
vars == <<pvars, lua, sampler, lastBuild>>

TaskIds == 1 .. MaxTasks
Systems == {"main_ui", "scripts_changed", "generate_noise", "update_noise_outputs"}
Heights == {1, 2}

(* ------------------ Events<NoiseGenRequest> and readers --------------- *)
\* an event: its kind, whether it was sent in an earlier tick (old), and
\* whether the EventReader of generate_noise (g) and of update_noise_outputs
\* (o) has moved past it
Event(kind) == [kind |-> kind, old |-> FALSE, g |-> FALSE, o |-> FALSE]

RECURSIVE Repeat(_, _)
Repeat(x, n) == IF n = 0 THEN <<>> ELSE <<x>> \o Repeat(x, n - 1)

RECURSIVE Kinds(_)
Kinds(evs) == IF evs = <<>> THEN <<>> ELSE <<Head(evs).kind>> \o Kinds(Tail(evs))

\* EventReader::read of each system: the events its cursor has not passed
GenUnread(evs) == Kinds(SelectSeq(evs, LAMBDA e : ~e.g))
OutUnread(evs) == Kinds(SelectSeq(evs, LAMBDA e : ~e.o))
\* the algorithm-changed signals generate_noise has still to read
AlgoUnread(evs) == Len(SelectSeq(evs, LAMBDA e : ~e.g /\ e.kind = "AlgorithmChanged"))
GenMarkRead(evs) == [i \in DOMAIN evs |-> [evs[i] EXCEPT !.g = TRUE]]
OutMarkRead(evs) == [i \in DOMAIN evs |-> [evs[i] EXCEPT !.o = TRUE]]

\* the update of Events at the start of a tick: the older buffer is dropped
EventsUpdate(evs) ==
    LET kept == SelectSeq(evs, LAMBDA e : ~e.old)
    IN  [i \in DOMAIN kept |-> [kept[i] EXCEPT !.old = TRUE]]

\* the request loop of both systems: panic on any event read after the
\* trigger kind was seen; otherwise whether the trigger kind was seen
RECURSIVE ScanRequests(_, _, _)
ScanRequests(batch, trigger, requested) ==
    IF batch = <<>> THEN (IF requested THEN "requested" ELSE "none")
    ELSE IF requested THEN "panic"
    ELSE ScanRequests(Tail(batch), trigger, Head(batch) = trigger)

\* a request loop that coalesces the signals of a tick instead of panicking
GenScanCoalesce(batch) ==
    IF \E i \in DOMAIN batch : batch[i] = "AlgorithmChanged" THEN "requested" ELSE "none"

GenScan(batch) == ScanRequests(batch, "AlgorithmChanged", FALSE)
OutScan(batch) == ScanRequests(batch, "ModelParamsChanged", FALSE)

(* --------------------------- host assets ------------------------------ *)
\* NoiseOutput::fill_image: the image is resized to the buffer's diameter and
\* every pixel set to the gray value (v + 1) / 2
fill_image(out, img) ==
    [size |-> out.diameter,
     data |-> [i \in DOMAIN out.samples |-> FDiv(FAdd(out.samples[i], One), Int2F(2))]]

\* NoiseOutput::update_mesh: the vertex over cell (x, y) has the height
\* samples[y * diameter + x] * height (normals and uvs follow from these)
update_mesh(out, h) ==
    [i \in DOMAIN out.samples |-> FMul(out.samples[i], Int2F(h))]

None == [some |-> FALSE]
Some(out) == [some |-> TRUE, out |-> out]

(* ------------------------------ tasks --------------------------------- *)
\* the task of generate_noise as spawned: img = NoiseOutput::new(32)
NewTask(code) ==
    [code |-> code, phase |-> "queued", built |-> "none", ast |-> Const(Zero),
     img |-> NoiseOutput_new(Diameter), pending |-> {}, unitsRun |-> 0]

\* the kinds of mlua::Error that construct_noisegen returns (each wrapped in
\* WithContext by LuaErrorContext::context, which is an mlua::Error again)
MluaErrors == {"SyntaxError", "RuntimeError", "FromLuaConversionError",
               "UserDataTypeMismatch", "UserDataDestructed"}

\* err.downcast::<mlua::Error>() succeeds
DowncastOk(err) == err \in MluaErrors

\* a build failure that enters sampling all the same (a wrong Err arm)
TaskAfterBuildSampleAnyway(task, r) ==
    [task EXCEPT !.phase = "sampling", !.built = IF r.ok THEN "ok" ELSE "err",
                 !.ast = r.noise, !.pending = DOMAIN rows(task.img)]

\* match lua::construct_noisegen(&code): Err returns img as it is (the
\* unwrap of the downcast panics the task otherwise), Ok goes on to the
\* scope with one unit per row
TaskAfterBuild(task, r) ==
    IF r.ok
    THEN [task EXCEPT !.phase = "sampling", !.built = "ok", !.ast = r.noise,
                      !.pending = DOMAIN rows(task.img)]
    ELSE IF DowncastOk(r.err)
    THEN [task EXCEPT !.phase = "done", !.built = "err"]
    ELSE [task EXCEPT !.phase = "panicked", !.built = "err"]

\* a poll that reports a task ready while its units still run
PollEarly(task) == task.phase \in {"sampling", "done"}

\* a poll that never reports a task ready
PollNever(task) == FALSE

\* future::poll_once on the task: Some(output) once the async block returned
Poll(task) == task.phase = "done"

WithTask(p, id, task) == [i \in DOMAIN p \cup {id} |-> IF i = id THEN task ELSE p[i]]
WithoutTask(p, id) == [i \in DOMAIN p \ {id} |-> p[i]]

\* a set of entities in the order a query yields them
RECURSIVE SetToSeq(_)
SetToSeq(S) ==
    IF S = {} THEN <<>>
    ELSE LET m == CHOOSE x \in S : \A y \in S : x <= y
         IN  <<m>> \o SetToSeq(S \ {m})

\* a rebuild that leaves the existing tasks alone
DespawnNone(ents) == <<>>

\* the loop over existingRequests: cmd.entity(ent).despawn() for each
DespawnAll(ents) == [i \in DOMAIN SetToSeq(ents) |-> [c |-> "despawn", ent |-> SetToSeq(ents)[i]]]

\* the queued commands applied in order, on <<tracked, pool, lastNoiseOutput>>
RECURSIVE ApplyCmds(_, _)
ApplyCmds(q, w) ==
    IF q = <<>> THEN w
    ELSE LET c == Head(q)
         IN  ApplyCmds(Tail(q),
                CASE c.c = "despawn" ->
                        <<w[1] \ {c.ent},
                          IF c.ent \in DOMAIN w[2] THEN WithoutTask(w[2], c.ent) ELSE w[2],
                          w[3]>>
                  [] c.c = "spawn" -> <<w[1] \cup {c.ent}, w[2], w[3]>>
                  [] c.c = "insert" -> <<w[1], w[2], Some(c.out)>>)

(* ----------------------- the pipeline's actions ----------------------- *)
PipelineInit ==
    /\ events = <<>>
    /\ ran = {}
    /\ selected = "None"
    /\ height = 1
    /\ pool = <<>>
    /\ tracked = {}
    /\ cmds = <<>>
    /\ image = [size |-> 256, data |-> <<>>]
    /\ mesh = [i \in 0 .. 2 |-> Zero]
    /\ lastNoiseOutput = None
    /\ fatal = FALSE
    /\ nextId = 1
    /\ superseded = {}
    /\ applyCount = [t \in TaskIds |-> 0]
    /\ genRead = <<>>
    /\ genStarted = 0
    /\ outLog = ""

LuaInit == lua = [w \in Threads |-> luaInst]
SamplerIdle == [pc |-> "idle"]
NoBuild == [runs |-> 0]

Init ==
    /\ PipelineInit
    /\ LuaInit
    /\ sampler = SamplerIdle
    /\ lastBuild = NoBuild

\* main_ui: a changed selection sends AlgorithmChanged, a dragged height
\* sends ModelParamsChanged
main_ui ==
    /\ ~fatal
    /\ "main_ui" \notin ran
    /\ \E sel \in Files \cup {selected}, h \in Heights :
        LET algo == sel # selected
            new == (IF algo THEN <<Event("AlgorithmChanged")>> ELSE <<>>)
                   \o (IF h # height THEN <<Event("ModelParamsChanged")>> ELSE <<>>)
        IN  /\ Len(events) + Len(new) <= MaxEvents
            /\ algo => nextId + AlgoUnread(events) <= MaxTasks
            /\ selected' = sel
            /\ height' = h
            /\ events' = events \o new
    /\ ran' = ran \cup {"main_ui"}
    /\ UNCHANGED <<pool, tracked, cmds, image, mesh, lastNoiseOutput, fatal, nextId,
                   superseded, applyCount, genRead, genStarted, outLog,
                   lua, sampler, lastBuild>>

\* scripts_changed: every modification of the selected file that the watcher
\* reported sends AlgorithmChanged
scripts_changed ==
    /\ ~fatal
    /\ "scripts_changed" \notin ran
    /\ \E n \in 0 .. MaxEvents :
        /\ n > 0 => selected # "None"
        /\ Len(events) + n <= MaxEvents
        /\ n > 0 => nextId + AlgoUnread(events) + n - 1 <= MaxTasks
        /\ events' = events \o Repeat(Event("AlgorithmChanged"), n)
    /\ ran' = ran \cup {"scripts_changed"}
    /\ UNCHANGED <<selected, height, pool, tracked, cmds, image, mesh, lastNoiseOutput,
                   fatal, nextId, superseded, applyCount, genRead, genStarted, outLog,
                   lua, sampler, lastBuild>>

\* generate_noise
generate_noise ==
    /\ ~fatal
    /\ "generate_noise" \notin ran
    /\ ran' = ran \cup {"generate_noise"}
    /\ genRead' = GenUnread(events)
    /\ events' = GenMarkRead(events)
    /\ IF GenScan(GenUnread(events)) = "panic" \/
          (GenScan(GenUnread(events)) = "requested" /\ selected = "None")
       THEN /\ fatal' = TRUE
            /\ UNCHANGED <<pool, cmds, nextId, superseded, genStarted>>
       ELSE IF GenScan(GenUnread(events)) = "none"
       THEN UNCHANGED <<fatal, pool, cmds, nextId, superseded, genStarted>>
       ELSE /\ cmds' = cmds \o DespawnAll(tracked) \o <<[c |-> "spawn", ent |-> nextId]>>
            /\ pool' = WithTask(pool, nextId, NewTask(selected))
            /\ nextId' = nextId + 1
            /\ superseded' = superseded \cup {t \in tracked : applyCount[t] = 0}
            /\ genStarted' = genStarted + 1
            /\ fatal' = fatal
    /\ UNCHANGED <<selected, height, tracked, image, mesh, lastNoiseOutput,
                   applyCount, outLog, lua, sampler, lastBuild>>

\* update_noise_outputs
update_noise_outputs ==
    /\ ~fatal
    /\ "update_noise_outputs" \notin ran
    /\ ran' = ran \cup {"update_noise_outputs"}
    /\ IF Cardinality(tracked) # 1
       THEN \* task.get_single_mut() failed: the parameters-changed branch
            /\ events' = OutMarkRead(events)
            /\ IF OutScan(OutUnread(events)) = "panic" \/
                  (OutScan(OutUnread(events)) = "requested" /\ ~lastNoiseOutput.some)
               THEN /\ fatal' = TRUE
                    /\ outLog' = "panic"
                    /\ mesh' = mesh
               ELSE IF OutScan(OutUnread(events)) = "none"
               THEN /\ outLog' = "idle"
                    /\ UNCHANGED <<fatal, mesh>>
               ELSE /\ mesh' = update_mesh(lastNoiseOutput.out, height)
                    /\ outLog' = "reprojected"
                    /\ fatal' = fatal
            /\ UNCHANGED <<cmds, image, applyCount>>
       ELSE LET taskEnt == CHOOSE t \in tracked : TRUE
                task == pool[taskEnt]
            IN  IF task.phase = "panicked"
                THEN \* the poll resumes the panic of the task
                     /\ fatal' = TRUE
                     /\ outLog' = "panic"
                     /\ UNCHANGED <<events, cmds, image, mesh, applyCount>>
                ELSE IF ~Poll(task)
                THEN /\ outLog' = "pending"
                     /\ UNCHANGED <<events, cmds, image, mesh, applyCount, fatal>>
                ELSE /\ cmds' = cmds \o <<[c |-> "despawn", ent |-> taskEnt],
                                          [c |-> "insert", out |-> task.img]>>
                     /\ image' = fill_image(task.img, image)
                     /\ mesh' = update_mesh(task.img, height)
                     /\ applyCount' = [applyCount EXCEPT ![taskEnt] = @ + 1]
                     /\ outLog' = "applied"
                     /\ UNCHANGED <<events, fatal>>
    /\ UNCHANGED <<selected, height, pool, tracked, lastNoiseOutput, nextId,
                   superseded, genRead, genStarted, lua, sampler, lastBuild>>

\* the end of Update: the queued commands are applied; then the next tick
\* starts with the update of the events
EndTick ==
    /\ ~fatal
    /\ ran = Systems
    /\ LET w == ApplyCmds(cmds, <<tracked, pool, lastNoiseOutput>>)
       IN  /\ tracked' = w[1]
           /\ pool' = w[2]
           /\ lastNoiseOutput' = w[3]
    /\ cmds' = <<>>
    /\ events' = EventsUpdate(events)
    /\ ran' = {}
    /\ genRead' = <<>>
    /\ genStarted' = 0
    /\ outLog' = ""
    /\ UNCHANGED <<selected, height, image, mesh, fatal, nextId, superseded,
                   applyCount, lua, sampler, lastBuild>>

\* a worker thread w runs the head of task t: construct_noisegen(&code)
Build(t, w) ==
    /\ ~fatal
    /\ t \in DOMAIN pool
    /\ pool[t].phase = "queued"
    /\ \E r \in {construct_noisegen(ScriptOf(pool[t].code), lua[w])} :
           /\ lua' = [lua EXCEPT ![w] = r.lua]
           /\ pool' = [pool EXCEPT ![t] = TaskAfterBuild(@, r)]
    /\ UNCHANGED <<events, ran, selected, height, tracked, cmds, image, mesh,
                   lastNoiseOutput, fatal, nextId, superseded, applyCount,
                   genRead, genStarted, outLog, sampler, lastBuild>>

\* the unit of row y of task t runs its loop
RowUnit(t, y) ==
    /\ ~fatal
    /\ t \in DOMAIN pool
    /\ pool[t].phase = "sampling"
    /\ y \in pool[t].pending
    /\ pool' = [pool EXCEPT ![t] =
                  [@ EXCEPT !.img = WriteRowFrom(@, rows(@)[y], 0, y, pool[t].ast),
                            !.pending = @ \ {y},
                            !.unitsRun = @ + 1]]
    /\ UNCHANGED <<events, ran, selected, height, tracked, cmds, image, mesh,
                   lastNoiseOutput, fatal, nextId, superseded, applyCount,
                   genRead, genStarted, outLog, lua, sampler, lastBuild>>

\* threadPool.scope returns once every unit has finished; the block returns img
Join(t) ==
    /\ ~fatal
    /\ t \in DOMAIN pool
    /\ pool[t].phase = "sampling"
    /\ pool[t].pending = {}
    /\ pool' = [pool EXCEPT ![t].phase = "done"]
    /\ UNCHANGED <<events, ran, selected, height, tracked, cmds, image, mesh,
                   lastNoiseOutput, fatal, nextId, superseded, applyCount,
                   genRead, genStarted, outLog, lua, sampler, lastBuild>>

Worker ==
    \E t \in TaskIds :
        \/ Join(t)
        \/ \E w \in Threads : Build(t, w)
        \/ \E y \in 0 .. Diameter - 1 : RowUnit(t, y)

Next ==
    \/ main_ui
    \/ scripts_changed
    \/ generate_noise
    \/ update_noise_outputs
    \/ EndTick
    \/ Worker

Spec == Init /\ [][Next]_vars

\* the host loop: the Update schedule runs again and again, every system
\* once in each run
Tick ==
    \/ main_ui
    \/ scripts_changed
    \/ generate_noise
    \/ EndTick
    \/ update_noise_outputs

\* the app runner keeps ticking and the threads of the AsyncComputeTaskPool
\* keep running the work handed to them
FairSpec == Spec /\ WF_vars(Tick) /\ WF_vars(Worker)

(* ------------- SamplerSpec: one task's sampling, cell by cell --------- *)
\* trees handed to the sampler (what construct_noisegen may have returned,
\* and trees with a Func leaf)
SampleTrees ==
    {Func("x"), Func("y"), Func("x+2y"), Const(Rat(1, 2)), Simplex(1), SimplexFast(2),
     Bin("Add", Func("x+2y"), Const(One)),
     Bin("Div", Func("x"), Func("y")),
     CoordScale(Func("x+2y"), dvec2(Int2F(2), Int2F(3))),
     CoordTranslate(Simplex(3), dvec2(One, Zero)),
     Octaves(Func("x"), 2, Rat(1, 2), Int2F(2)),
     Un("ToUnsignedUnit", Bin("Mul", Func("x"), Func("y")))}

\* an Arc<Noise>: the allocation it points to and the tree stored there
Arc(inst, tree) == [inst |-> inst, tree |-> tree]

\* a per-unit deep copy of the tree into an allocation of the unit's own
DeepClone(arc, y) == Arc(arc.inst + y + 1, clone(arc.tree))

\* let ast = ast.clone() with ast: Arc<Noise>, for the unit of row y: a new
\* handle to the same allocation
ArcClone(arc, y) == arc

SamplerInit ==
    sampler \in {[pc |-> "scope", ast |-> Arc(0, t), img |-> NoiseOutput_new(Diameter),
                  units |-> <<>>,
                  writes |-> [i \in 0 .. Diameter * Diameter - 1 |-> <<>>]]
                 : t \in SampleTrees}

\* img.rows().for_each: the next row's unit is spawned with its handle
SpawnUnit ==
    /\ sampler.pc = "scope"
    /\ Cardinality(DOMAIN sampler.units) < Cardinality(DOMAIN rows(sampler.img))
    /\ LET y == Cardinality(DOMAIN sampler.units)
       IN  sampler' = [sampler EXCEPT !.units =
                         [r \in DOMAIN sampler.units \cup {y} |->
                            IF r = y THEN [ast |-> ArcClone(sampler.ast, y), x |-> 0]
                            ELSE sampler.units[r]]]
    /\ UNCHANGED <<pvars, lua, lastBuild>>

\* the unit of row y writes its next cell
UnitStep(y) ==
    /\ sampler.pc = "scope"
    /\ y \in DOMAIN sampler.units
    /\ sampler.units[y].x < sampler.img.diameter
    /\ LET u == sampler.units[y]
           slice == rows(sampler.img)[y]
       IN  sampler' = [sampler EXCEPT
                         !.img = WriteCell(@, slice, u.x, y, u.ast.tree),
                         !.units[y].x = @ + 1,
                         !.writes[slice[u.x]] = Append(@, y)]
    /\ UNCHANGED <<pvars, lua, lastBuild>>

\* the scope returns when every unit has finished
ScopeJoin ==
    /\ sampler.pc = "scope"
    /\ DOMAIN sampler.units = DOMAIN rows(sampler.img)
    /\ \A y \in DOMAIN sampler.units : sampler.units[y].x = sampler.img.diameter
    /\ sampler' = [sampler EXCEPT !.pc = "done"]
    /\ UNCHANGED <<pvars, lua, lastBuild>>

SamplerNext ==
    \/ SpawnUnit
    \/ \E y \in 0 .. Diameter - 1 : UnitStep(y)
    \/ ScopeJoin

InitSampler == PipelineInit /\ LuaInit /\ lastBuild = NoBuild /\ SamplerInit

SamplerSpec == InitSampler /\ [][SamplerNext]_vars

(* ------- EvalSpec: one tree evaluated at one coordinate, and cloned ----- *)
\* coordinates handed to eval
EvalPoints ==
    {dvec2(Zero, Zero), dvec2(One, Rat(1, 2)), dvec2(Rat(1, 3), One), dvec2(Int2F(-2), Int2F(3))}

\* Octaves nodes as the octaves method and Noise::Octaves can build them
OctaveTrees ==
    {Octaves(child, n, a, f) :
        child \in {Const(Zero), Const(Rat(1, 2)), Const(Int2F(-2)), Const(PInf),
                   Func("x"), Func("x+2y"), Simplex(1)},
        n \in 0 .. MaxOctaves,
        a \in {Rat(1, 2), Zero, Int2F(-1), Int2F(2), PInf},
        f \in {Int2F(2), Rat(1, 2)}}

\* trees of every variant of Noise, one and two levels deep
VariantTrees ==
    LET lefts == {Func("x"), Const(Rat(-3, 2)), Simplex(1),
                  Octaves(Func("x+2y"), 2, Rat(1, 2), Int2F(2))}
        rights == {Const(Int2F(2)), Const(Int2F(-1))}
    IN  {Bin(tag, l, r) : tag \in BinTags, l \in lefts, r \in rights}
        \cup {Un(tag, l) : tag \in UnTags, l \in lefts}
        \cup {Clamp(l, Rat(-1, 2), Rat(1, 2)) : l \in lefts}
        \cup {CoordTranslate(Un("Floor", l), dvec2(Rat(1, 2), Int2F(-1))) : l \in lefts}
        \cup {CoordScale(Bin("Sub", l, Func("y")), dvec2(Int2F(2), Rat(1, 3))) : l \in lefts}
        \cup {SimplexFast(2), Func("y")}

EvalInit ==
    sampler \in {[pc |-> "eval", tree |-> t, pos |-> p]
                 : t \in OctaveTrees \cup SampleTrees \cup VariantTrees, p \in EvalPoints}

\* ast.eval(pos)
EvalStep ==
    /\ sampler.pc = "eval"
    /\ sampler' = [pc |-> "evaluated", tree |-> sampler.tree, pos |-> sampler.pos,
                   val |-> eval(sampler.tree, sampler.pos)]
    /\ UNCHANGED <<pvars, lua, lastBuild>>

\* tree.clone(), and the copy evaluated at the same coordinate
CloneStep ==
    /\ sampler.pc = "evaluated"
    /\ \E copy \in {clone(sampler.tree)} :
           sampler' = [pc |-> "cloned", tree |-> sampler.tree, pos |-> sampler.pos,
                       val |-> sampler.val, copy |-> copy,
                       copyVal |-> eval(copy, sampler.pos)]
    /\ UNCHANGED <<pvars, lua, lastBuild>>

EvalNext == EvalStep \/ CloneStep

InitEval == PipelineInit /\ LuaInit /\ lastBuild = NoBuild /\ EvalInit

EvalSpec == InitEval /\ [][EvalNext]_vars

(* ---- OpSpec: the operations of the script surface, one at a time ------ *)
\* the thread whose runtime the script runs on
OpThread == "w1"

\* the handles of st that hold a tree
NoiseHandles(st) == {h \in DOMAIN st.ud : st.ud[h].kind = "Noise"}

\* right-hand operands: a bare number or a tree handle
RhsValues(st) == {NumV(Int2F(2))} \cup {UdV(h) : h \in NoiseHandles(st)}

\* the argument lists the model passes to the named methods
MethodArgs(st, fn) ==
    IF fn \in DOMAIN MethodBinTag THEN {<<v>> : v \in RhsValues(st)}
    ELSE IF fn \in DOMAIN MethodUnTag THEN {<<>>}
    ELSE IF fn = "octaves" THEN {<<NumV(Int2F(2))>>}
    ELSE IF fn = "clamp" THEN {<<NumV(Int2F(-1)), NumV(One)>>}
    ELSE IF fn = "translate" THEN {<<NumV(One)>>}
    ELSE {<<NumV(Int2F(2)), NumV(Int2F(3))>>}

MethodNames ==
    DOMAIN MethodBinTag \cup DOMAIN MethodUnTag \cup {"octaves", "clamp", "translate", "scale"}

\* Noise.const(2), Noise.simplex(1)
CtorOp(fn, n) ==
    /\ Len(lua[OpThread].ud) < MaxHandles
    /\ \E r \in {CtorCall(lua[OpThread], fn, <<NumV(Int2F(n))>>)} :
           lua' = [lua EXCEPT ![OpThread] = r.st]
    /\ UNCHANGED <<pvars, sampler, lastBuild>>

\* h:fn(args) on a tree handle h
MethodOp(h, fn) ==
    /\ Len(lua[OpThread].ud) < MaxHandles
    /\ h \in NoiseHandles(lua[OpThread])
    /\ \E args \in MethodArgs(lua[OpThread], fn) :
       \E r \in {MethodCall(lua[OpThread], lua[OpThread].ud[h].tree, fn, args)} :
           lua' = [lua EXCEPT ![OpThread] = r.st]
    /\ UNCHANGED <<pvars, sampler, lastBuild>>

\* h op rhs for the six operators
MetaOp(h, op) ==
    /\ Len(lua[OpThread].ud) < MaxHandles
    /\ h \in NoiseHandles(lua[OpThread])
    /\ \E rhs \in RhsValues(lua[OpThread]) :
       \E r \in {MetaCall(lua[OpThread], op, UdV(h), rhs)} :
           lua' = [lua EXCEPT ![OpThread] = r.st]
    /\ UNCHANGED <<pvars, sampler, lastBuild>>

OpNext ==
    \/ \E fn \in {"const", "simplex"}, n \in {1, 2} : CtorOp(fn, n)
    \/ \E h \in 1 .. MaxHandles, fn \in MethodNames : MethodOp(h, fn)
    \/ \E h \in 1 .. MaxHandles, op \in DOMAIN MetaTag : MetaOp(h, op)

OpSpec == Init /\ [][OpNext]_vars

(* ------ LuaSpec: sources built one after another on the threads ------- *)
RunScript(file, w) ==
    /\ lastBuild.runs < MaxRuns
    /\ \E r \in {construct_noisegen(ScriptOf(file), lua[w])} :
           /\ lua' = [lua EXCEPT ![w] = r.lua]
           /\ lastBuild' = [runs |-> lastBuild.runs + 1, file |-> file, thread |-> w,
                            ok |-> r.ok, err |-> r.err, noise |-> r.noise]
    /\ UNCHANGED <<pvars, sampler>>

LuaNext == \E file \in Files \cup MoreSources, w \in Threads : RunScript(file, w)

LuaSpec == Init /\ [][LuaNext]_vars

(* ------------------------------ claims -------------------------------- *)
Range(q) == {q[i] : i \in DOMAIN q}
AlgoCount(batch) == Cardinality({i \in DOMAIN batch : batch[i] = "AlgorithmChanged"})
AllZero(img) ==
    /\ img.diameter = Diameter
    /\ DOMAIN img.samples = 0 .. Diameter * Diameter - 1
    /\ \A i \in DOMAIN img.samples : img.samples[i] = Zero

\* C1: a task that was in flight when generate_noise honored an
\* algorithm-changed signal never has its buffer applied by
\* update_noise_outputs afterwards, in that tick or a later one.
C1_SupersededNeverApplied == \A t \in superseded : applyCount[t] = 0

\* C2: once the commands of a tick are applied at most one task entity is
\* tracked, and a rebuild queues the despawn of every tracked task together
\* with the spawn of the new one.
C2_AtMostOneTask ==
    /\ (ran = {} /\ cmds = <<>>) => Cardinality(tracked) <= 1
    /\ genStarted > 0 =>
          \A t \in tracked : [c |-> "despawn", ent |-> t] \in Range(cmds)

\* C2 witness: a rebuild superseded task 1, and after the tick only the new
\* task is tracked.
C2_Witness == ran = {} /\ cmds = <<>> /\ 1 \in superseded /\ tracked = {2}

\* C3: a task whose build failed has completed with the zero buffer of the
\* full size, ran no row unit, and did not panic.
C3_BuildFailureZeroBuffer ==
    \A t \in DOMAIN pool :
        /\ pool[t].phase # "panicked"
        /\ pool[t].built = "err" =>
              /\ pool[t].phase = "done"
              /\ AllZero(pool[t].img)
              /\ pool[t].unitsRun = 0

\* C3 witness: a failed build was polled ready and its zero buffer applied,
\* without a fatal failure.
C3_Witness ==
    \E t \in DOMAIN pool :
        /\ pool[t].built = "err"
        /\ applyCount[t] = 1
        /\ ~fatal
        /\ image = fill_image(NoiseOutput_new(Diameter), image)

\* C4: a task whose buffer was applied had returned from the scope: no unit
\* was pending, and a built tree had every row written by its unit.
C4_AppliedOnlyComplete ==
    \A t \in DOMAIN pool :
        applyCount[t] > 0 =>
            /\ pool[t].phase = "done"
            /\ pool[t].pending = {}
            /\ pool[t].built = "ok" => pool[t].unitsRun = Diameter

\* C4 witness: the buffer of a sampled tree was applied.
C4_Witness ==
    \E t \in DOMAIN pool :
        applyCount[t] = 1 /\ pool[t].built = "ok" /\ pool[t].unitsRun = Diameter

\* C5: when update_noise_outputs processes a parameters-changed signal with
\* no task in flight, nothing changes but the mesh, which is rebuilt from the
\* last buffer with the current height.
C5_ParamsOnlyReprojects ==
    [][("update_noise_outputs" \in ran' \ ran /\ tracked = {} /\
        "ModelParamsChanged" \in Range(OutUnread(events)))
       => /\ ~fatal'
          /\ pool' = pool /\ cmds' = cmds /\ lua' = lua
          /\ lastNoiseOutput' = lastNoiseOutput /\ image' = image
          /\ mesh' = update_mesh(lastNoiseOutput.out, height)]_vars

\* C10: generate_noise starts at most one task in a tick, and a tick in which
\* it reads two or more algorithm-changed signals is fatal and starts none.
C10_OneRebuildPerTick ==
    /\ genStarted <= 1
    /\ AlgoCount(genRead) >= 2 => (fatal /\ genStarted = 0)

\* C10 witness: generate_noise read two algorithm-changed signals in a tick.
C10_Witness == AlgoCount(genRead) >= 2 /\ fatal /\ genStarted = 0

\* C6: the buffer the scope returns has Diameter * Diameter entries in
\* row-major order, entry y * Diameter + x being the tree evaluated at
\* (x / (Diameter - 1), y / (Diameter - 1)).
C6_RowMajorSamples ==
    sampler.pc = "done" =>
        /\ DOMAIN sampler.img.samples = 0 .. Diameter * Diameter - 1
        /\ \A x, y \in 0 .. Diameter - 1 :
              sampler.img.samples[y * Diameter + x] =
                  eval(sampler.ast.tree, <<Rat(x, Diameter - 1), Rat(y, Diameter - 1)>>)

\* C6 witness: the scope returned for a tree whose value differs between
\* the two axes.
C6_Witness ==
    /\ sampler.pc = "done"
    /\ sampler.ast.tree = Func("x+2y")
    /\ sampler.img.samples[1] # sampler.img.samples[Diameter]

C8_BuildIsolated ==
    lastBuild.runs > 0 =>
        \E fresh \in {construct_noisegen(ScriptOf(lastBuild.file), luaInst)} :
            /\ lastBuild.ok = fresh.ok
            /\ lastBuild.err = fresh.err
            /\ lastBuild.noise = fresh.noise

ResultTypeErrors == {"FromLuaConversionError", "UserDataTypeMismatch"}

\* C11: construct_noisegen fails with a syntax error when the source does
\* not parse, with a runtime error when execution raises, and with a
\* result-type error when the final value is a non-userdata value or a
\* userdata of another type; the three kinds differ; it returns a tree only
\* when the final value is a Noise userdata, and then that userdata's tree.
C11_ErrorKinds ==
    [][lastBuild'.runs = lastBuild.runs + 1 =>
        \E code \in {ScriptOf(lastBuild'.file)} :
        \E b \in {ExecBody(code.body, lua[lastBuild'.thread])} :
        \E r \in {IF b.ok THEN EvalExpr(code.ret, b.st) ELSE Raise(b.st)} :
            /\ ~code.syntax => (~lastBuild'.ok /\ lastBuild'.err = "SyntaxError")
            /\ (code.syntax /\ ~r.ok) =>
                  (~lastBuild'.ok /\ lastBuild'.err = "RuntimeError")
            /\ (code.syntax /\ r.ok /\
                (r.val.t # "userdata" \/ r.st.ud[r.val.h].kind = "NoiseCtors")) =>
                  (~lastBuild'.ok /\ lastBuild'.err \in ResultTypeErrors)
            /\ lastBuild'.ok =>
                  (code.syntax /\ r.ok /\ IsNoise(r.st, r.val) /\
                   lastBuild'.noise = r.st.ud[r.val.h].tree)
            /\ {"SyntaxError", "RuntimeError"} \cap ResultTypeErrors = {}]_vars

\* C11 witness: a script whose final value is a userdata of another type
\* was refused with a result-type error.
C11_Witness ==
    /\ lastBuild.runs > 0 /\ lastBuild.file = "ctors.lua"
    /\ ~lastBuild.ok /\ lastBuild.err = "UserDataTypeMismatch"

\* the amplitude and the frequency of octave i, and the sum of the first n
\* octaves, as C12 defines them
RECURSIVE AmpAt(_, _)
AmpAt(t, i) == IF i = 0 THEN One ELSE The({FMul(a, t.ampScale) : a \in {AmpAt(t, i - 1)}})
RECURSIVE FreqAt(_, _)
FreqAt(t, i) == IF i = 0 THEN One ELSE The({FMul(f, t.freqScale) : f \in {FreqAt(t, i - 1)}})
RECURSIVE OctaveSum(_, _, _)
OctaveSum(t, pos, n) ==
    IF n = 0 THEN Zero
    ELSE The({FAdd(acc, FMul(AmpAt(t, n - 1), eval(t.func, VScale(pos, FreqAt(t, n - 1)))))
              : acc \in {OctaveSum(t, pos, n - 1)}})
RECURSIVE GeomSum(_, _)
GeomSum(a, n) ==
    IF n = 0 THEN Zero ELSE The({FAdd(acc, IntPow(a, n - 1)) : acc \in {GeomSum(a, n - 1)}})

\* C12 as stated: an Octaves node evaluates to the sum of its octaves, to 0
\* with no octave, and with a constant child c to c times the sum of the
\* powers of ampScale.
C12_OctavesConstAny ==
    (sampler.pc = "evaluated" /\ sampler.tree.tag = "Octaves") =>
        /\ sampler.val = OctaveSum(sampler.tree, sampler.pos, sampler.tree.octaves)
        /\ sampler.tree.octaves = 0 => sampler.val = Zero
        /\ sampler.tree.func.tag = "Const" =>
              sampler.val = FMul(sampler.tree.func.v,
                                 GeomSum(sampler.tree.ampScale, sampler.tree.octaves))

\* C12 amended: the same, the constant-child product only for a finite
\* constant c.
C12_OctavesSum ==
    (sampler.pc = "evaluated" /\ sampler.tree.tag = "Octaves") =>
        /\ sampler.val = OctaveSum(sampler.tree, sampler.pos, sampler.tree.octaves)
        /\ sampler.tree.octaves = 0 => sampler.val = Zero
        /\ (sampler.tree.func.tag = "Const" /\ ~IsSpecial(sampler.tree.func.v)) =>
              sampler.val = FMul(sampler.tree.func.v,
                                 GeomSum(sampler.tree.ampScale, sampler.tree.octaves))

\* C12 witness: the constant 1/2 under two octaves of ampScale 1/2 evaluated
\* to 1/2 + 1/4.
C12_Witness ==
    /\ sampler.pc = "evaluated" /\ sampler.tree.tag = "Octaves"
    /\ sampler.tree.octaves = 2
    /\ sampler.tree.func = Const(Rat(1, 2))
    /\ sampler.tree.ampScale = Rat(1, 2)
    /\ sampler.val = Rat(3, 4)

\* C13: the clone of a tree is the same variant with the same parameters
\* and cloned children, and evaluates to the value of the tree at every
\* coordinate.
C13_ClonePreservesEval ==
    sampler.pc = "cloned" =>
        /\ sampler.copy = sampler.tree
        /\ sampler.copyVal = sampler.val
        /\ sampler.copyVal = eval(sampler.tree, sampler.pos)

\* C13 witness: an Octaves node with different scales over a child that
\* depends on the coordinate was cloned and the clone evaluated.
C13_Witness ==
    /\ sampler.pc = "cloned" /\ sampler.tree.tag = "Octaves"
    /\ sampler.tree.func = Func("x+2y") /\ sampler.tree.octaves >= 2
    /\ sampler.tree.ampScale # sampler.tree.freqScale
    /\ sampler.val # Zero

\* C14: an operation of the script surface returns a new handle with a new
\* tree and leaves every tree the runtime already holds, the receiver's and
\* a right-hand operand's among them, as it was.
C14_OpsLeaveOperands ==
    [][lua'[OpThread] # lua[OpThread] =>
        /\ Len(lua'[OpThread].ud) = Len(lua[OpThread].ud) + 1
        /\ \A h \in DOMAIN lua[OpThread].ud :
              lua'[OpThread].ud[h] = lua[OpThread].ud[h]
        /\ lua'[OpThread].ud[Len(lua'[OpThread].ud)].kind = "Noise"
        /\ lua'[OpThread].globals = lua[OpThread].globals]_vars

\* C14 witness: the handle of simplex(1) was the receiver of abs and then of
\* +, with the handle of the abs tree as right-hand operand, and still
\* holds simplex(1).
C14_Witness ==
    lua[OpThread].ud =
        <<CtorsCell, NoiseCell(Simplex(1)), NoiseCell(Un("Abs", Simplex(1))),
          NoiseCell(Bin("Add", Simplex(1), Un("Abs", Simplex(1))))>>

\* C15: a single parameters-changed signal processed by
\* update_noise_outputs with no task tracked and no buffer ever applied
\* does not end in a fatal failure.
C15_ParamsBeforeBufferSafe ==
    [][("update_noise_outputs" \in ran' \ ran /\ tracked = {} /\
        ~lastNoiseOutput.some /\ OutUnread(events) = <<"ModelParamsChanged">>)
       => ~fatal']_vars

\* C16: a batch with at most one algorithm-changed signal is processed
\* without a fatal failure by generate_noise (a script being selected) and
\* by the parameters branch of update_noise_outputs (a last buffer being
\* there).
C16_FatalOnlyOnTwoAlgo ==
    [][/\ ("generate_noise" \in ran' \ ran /\ selected # "None" /\
           AlgoCount(GenUnread(events)) <= 1) => ~fatal'
       /\ ("update_noise_outputs" \in ran' \ ran /\ Cardinality(tracked) # 1 /\
           lastNoiseOutput.some /\ AlgoCount(OutUnread(events)) <= 1) => ~fatal']_vars

\* the rows sampled one after another, from row y on
RECURSIVE SampleRowsFrom(_, _, _)
SampleRowsFrom(img, y, ast) ==
    IF y \notin DOMAIN rows(img) THEN img
    ELSE The({SampleRowsFrom(next, y + 1, ast)
              : next \in {WriteRowFrom(img, rows(img)[y], 0, y, ast)}})

\* C17: under every interleaving of the row units a cell is written at most
\* once, and only by the unit of its own row; when the scope returns every
\* cell was written exactly once and the buffer is the one the rows give
\* sampled in order.
C17_RowsPartitionBuffer ==
    sampler.pc \in {"scope", "done"} =>
        /\ \A i \in DOMAIN sampler.writes :
              /\ Len(sampler.writes[i]) <= 1
              /\ \A k \in DOMAIN sampler.writes[i] :
                    sampler.writes[i][k] = i \div Diameter
        /\ sampler.pc = "done" =>
              /\ DOMAIN sampler.writes = 0 .. Diameter * Diameter - 1
              /\ \A i \in DOMAIN sampler.writes : Len(sampler.writes[i]) = 1
              /\ sampler.img =
                    SampleRowsFrom(NoiseOutput_new(Diameter), 0, sampler.ast.tree)

\* C17 witness: the unit of row 1 wrote its whole row before the unit of
\* row 0 wrote a cell.
C17_Witness ==
    /\ sampler.pc = "scope"
    /\ {0, 1} \subseteq DOMAIN sampler.units
    /\ sampler.units[1].x = Diameter
    /\ sampler.units[0].x = 0
    /\ sampler.ast.tree = Func("x+2y")

====
